---- MODULE Spec2Model ----
(***************************************************************************)
(* Model of the in-memory property catalog of src/main.py:                 *)
(* PropertyManager (entity store, user portfolios, search index) and       *)
(* PropertySearch (criteria search, shortlist).  Every action is one       *)
(* call of a method; `ret` records the call and what it returned or        *)
(* raised.                                                                 *)
(***************************************************************************)
EXTENDS Integers, Sequences, FiniteSets, TLC

(* ---------------- bounds of the model ---------------- *)
\* update_property_status(_, 'available', _) appends without limit: it is
\* offered only while search_index['available'] is shorter than this
MaxAvailLen == 2

(* ---------------- input domains ---------------- *)
\* the ids uuid4 can hand out (their order is unrelated to creation order)
PropertyIds == {1, 2}
Users == {"u1", "u2"}
\* the statuses given to update_property_status: the parameter is any str, and
\* line 48 stores it unchecked; "pending" stands for every string that is
\* neither 'sold' nor 'available' ('', 'SOLD', ...), which all take the same
\* path through lines 48-54
Statuses == {"available", "sold", "pending"}
\* the criterion names offered to search_properties: line 86 only asks whether
\* the name is a key of the index, which "location" is exactly while a listing
\* has that string as a facet value
CriteriaKeys == {"location"}
CriteriaValues == {"Austin", "location"}
BucketSize == 100000

\* a price is a float: a finite number, or one of inf, -inf, nan (which line
\* 68 treats alike: inf // 100000 is nan, and int(nan) raises ValueError)
Finite(n) == [finite |-> TRUE, value |-> n]

NonFinite == [finite |-> FALSE, value |-> 0]

\* the attribute payloads offered to add_property: an ordinary listing, a
\* listing whose location equals its property type and is the string the
\* search route uses as a criterion name, and a listing whose price is not
\* finite
DetailsInputs ==
    { [location |-> "Austin", price |-> Finite(250000), property_type |-> "condo"],
      [location |-> "location", price |-> Finite(99999), property_type |-> "location"],
      [location |-> "Austin", price |-> NonFinite, property_type |-> "condo"] }

NoDetails == [location |-> "", price |-> Finite(0), property_type |-> ""]

\* properties, user_portfolios, search_index: the three dicts of
\* PropertyManager; clock: the timestamp of the newest listing; ret: the last
\* call; snap: the dicts as they were before the last call when that call was
\* a 'sold' status call that returned True; race: two status calls running
\* step by step
VARIABLES properties, user_portfolios, search_index, clock, ret, snap, race

vars == <<properties, user_portfolios, search_index, clock, ret, snap, race>>

(* ---------------- helpers on Python lists ---------------- *)
Range(s) == {s[i] : i \in 1..Len(s)}

Count(s, x) == Cardinality({i \in 1..Len(s) : s[i] = x})

\* list.remove(x): drops the first occurrence of x (x is in s)
ListRemove(s, x) ==
    LET i == CHOOSE k \in 1..Len(s) : s[k] = x /\ \A j \in 1..(k - 1) : s[j] # x
    IN  SubSeq(s, 1, i - 1) \o SubSeq(s, i + 1, Len(s))

\* d.get(k, [])
DictGet(d, k) == IF k \in DOMAIN d THEN d[k] ELSE <<>>

\* d.setdefault(k, []).append(x)
DictAppend(d, k, x) ==
    [j \in DOMAIN d \cup {k} |-> IF j = k THEN Append(DictGet(d, k), x) ELSE d[j]]

NoCriteria == [k \in {} |-> ""]

(* ---------------- Property.__init__ ---------------- *)
Property(user, details, t) ==
    [user_id |-> user, details |-> details, status |-> "available", timestamp |-> t]

(* ---------------- PropertyManager._update_index ---------------- *)
PriceRange_RoundsUp(price) ==
    ToString((price.value + BucketSize - 1) \div BucketSize) \o "00k"

\* f"{int(details['price'] // 100000)}00k", for a finite price
PriceRange(price) == ToString(price.value \div BucketSize) \o "00k"

\* int(details['price'] // 100000) raises ValueError when the price is not
\* finite
PriceRangeRaises(price) == ~price.finite

IndexKeys(details) ==
    <<PriceRange(details.price), details.location, details.property_type, "available">>

RECURSIVE AppendUnderKeys(_, _, _)
AppendUnderKeys(idx, keys, pid) ==
    IF keys = <<>> THEN idx
    ELSE AppendUnderKeys(DictAppend(idx, Head(keys), pid), Tail(keys), pid)

\* line 68 comes before the appends of lines 72-75: when it raises, the index
\* is as it was
UpdateIndex(idx, pid, details) ==
    IF PriceRangeRaises(details.price)
    THEN [index |-> idx, outcome |-> "ValueError"]
    ELSE [index |-> AppendUnderKeys(idx, IndexKeys(details), pid),
          outcome |-> "returned"]

(* ---------------- the call record ---------------- *)
\* what the last call was, what it was given, the status its listing had
\* when it was called, and how it ended: outcome is "True"/"False" for the
\* bool methods, "returned" for the others, or the name of the exception
Call(op, user, pid, status, details, criteria, old_status, outcome, value) ==
    [op |-> op, user |-> user, pid |-> pid, status |-> status,
     details |-> details, criteria |-> criteria, old_status |-> old_status,
     outcome |-> outcome, value |-> value]

StatusOf(pid) == IF pid \in DOMAIN properties THEN properties[pid].status ELSE ""

(* ---------------- search_properties: the ids it finds ---------------- *)
SearchCandidates_AllWhenEmpty(criteria) ==
    IF DOMAIN criteria = {}
    THEN Range(DictGet(search_index, "available"))
    ELSE UNION { IF k \in DOMAIN search_index
                 THEN Range(DictGet(search_index, criteria[k]))
                 ELSE {} : k \in DOMAIN criteria }

\* the ids collected from the index: a criterion counts when its KEY is a
\* key of the index, and it contributes the collection stored under its VALUE
SearchCandidates(criteria) ==
    UNION { IF k \in DOMAIN search_index
            THEN Range(DictGet(search_index, criteria[k]))
            ELSE {} : k \in DOMAIN criteria }

SearchFiltered_NoStatusCheck(criteria) == SearchCandidates(criteria)

SearchFiltered(criteria) ==
    {pid \in SearchCandidates(criteria) : properties[pid].status = "available"}

CriteriaInputs ==
    UNION { [D -> CriteriaValues] : D \in SUBSET CriteriaKeys }

(* ---------------- what is kept of the state before a call ---------------- *)
Threads == {1, 2}

NoSnap ==
    [taken |-> FALSE, properties |-> <<>>, portfolios |-> <<>>, index |-> <<>>,
     found |-> <<>>]

NoRace ==
    [pid |-> 0, user |-> "", pc |-> [t \in Threads |-> "idle"],
     result |-> [t \in Threads |-> ""]]

\* part of every call made on its own: no stepwise call is running
Remember ==
    /\ snap' = IF /\ ret'.op = "update_property_status"
                  /\ ret'.status = "sold"
                  /\ ret'.outcome = "True"
               THEN [taken |-> TRUE, properties |-> properties,
                     portfolios |-> user_portfolios, index |-> search_index,
                     found |-> [c \in CriteriaInputs |-> SearchFiltered(c)]]
               ELSE NoSnap
    /\ race = NoRace
    /\ race' = race

Init ==
    /\ snap = NoSnap
    /\ race = NoRace
    /\ properties = [p \in {} |-> Property("", NoDetails, 0)]
    /\ user_portfolios = [u \in {} |-> <<>>]
    /\ search_index = [k \in {} |-> <<>>]
    /\ clock = 0
    /\ ret = Call("init", "", 0, "", NoDetails, NoCriteria, "", "", <<>>)

(* ---------------- PropertyManager.add_property ---------------- *)
RecordOwnership_Skipped(ports, user, pid) == ports

\* self.user_portfolios[user_id].append(property_id), the list made if absent
RecordOwnership(ports, user, pid) == DictAppend(ports, user, pid)

\* uuid4 gives an id that is in no collection yet; datetime.now() gives a
\* time not before the previous one (equal times are possible): timestamps
\* are only compared with each other, so the first is 1 and a later one is
\* the newest so far or one more.  The listing
\* is stored and put in the owner's portfolio (lines 31-34) before
\* _update_index is called (line 37): both stay when _update_index raises,
\* and the caller gets no id (ret.pid still tells which id was made)
AddProperty(user, details) ==
    \E pid \in PropertyIds \ DOMAIN properties :
    \E t \in {clock, clock + 1} \ {0} :
        LET eff == UpdateIndex(search_index, pid, details) IN
        /\ clock' = t
        /\ properties' = [p \in DOMAIN properties \cup {pid} |->
                             IF p = pid THEN Property(user, details, t) ELSE properties[p]]
        /\ user_portfolios' = RecordOwnership(user_portfolios, user, pid)
        /\ search_index' = eff.index
        /\ ret' = Call("add_property", user, pid, "", details, NoCriteria, "",
                       eff.outcome,
                       IF eff.outcome = "returned" THEN <<pid>> ELSE <<>>)
        /\ Remember

(* ---------------- PropertyManager.update_property_status ---------------- *)
IsOwner_Anyone(pid, user) == TRUE

\* property_obj.user_id != user_id is the refusal
IsOwner(pid, user) == properties[pid].user_id = user

\* the index after the status branch, and how the call ends
StatusIndexEffect_NoReindex(idx, pid, status) ==
    IF status = "sold"
    THEN IF "available" \notin DOMAIN idx
         THEN [index |-> idx, outcome |-> "KeyError"]
         ELSE IF pid \notin Range(idx["available"])
         THEN [index |-> idx, outcome |-> "ValueError"]
         ELSE [index |-> [idx EXCEPT !["available"] = ListRemove(@, pid)],
               outcome |-> "True"]
    ELSE [index |-> idx, outcome |-> "True"]

StatusIndexEffect(idx, pid, status) ==
    IF status = "sold"
    THEN IF "available" \notin DOMAIN idx
         THEN [index |-> idx, outcome |-> "KeyError"]
         ELSE IF pid \notin Range(idx["available"])
         THEN [index |-> idx, outcome |-> "ValueError"]
         ELSE [index |-> [idx EXCEPT !["available"] = ListRemove(@, pid)],
               outcome |-> "True"]
    ELSE IF status = "available"
    THEN [index |-> DictAppend(idx, "available", pid), outcome |-> "True"]
    ELSE [index |-> idx, outcome |-> "True"]

\* the status is written before the index is touched, so it stays written
\* when list.remove raises
UpdatePropertyStatus(pid, status, user) ==
    /\ status = "available" => Len(DictGet(search_index, "available")) < MaxAvailLen
    /\ IF pid \notin DOMAIN properties
       THEN /\ ret' = Call("update_property_status", user, pid, status, NoDetails,
                           NoCriteria, StatusOf(pid), "False", <<>>)
            /\ UNCHANGED <<properties, user_portfolios, search_index, clock>>
       ELSE IF ~IsOwner(pid, user)
       THEN /\ ret' = Call("update_property_status", user, pid, status, NoDetails,
                           NoCriteria, StatusOf(pid), "False", <<>>)
            /\ UNCHANGED <<properties, user_portfolios, search_index, clock>>
       ELSE LET eff == StatusIndexEffect(search_index, pid, status) IN
            /\ properties' = [properties EXCEPT ![pid].status = status]
            /\ search_index' = eff.index
            /\ ret' = Call("update_property_status", user, pid, status, NoDetails,
                           NoCriteria, StatusOf(pid), eff.outcome, <<>>)
            /\ UNCHANGED <<user_portfolios, clock>>
    /\ Remember

(* ---------------- PropertySearch.search_properties ---------------- *)
Orders(S) ==
    {s \in [1..Cardinality(S) -> S] : \A i, j \in 1..Cardinality(S) : i # j => s[i] # s[j]}

NewestFirst(s) ==
    \A i, j \in 1..Len(s) :
        i < j => properties[s[i]].timestamp >= properties[s[j]].timestamp

\* sorted(..., reverse=True) is stable, and the list it sorts is built by
\* iterating a set of strings: equal timestamps come out in any order
SearchResults(criteria) == {s \in Orders(SearchFiltered(criteria)) : NewestFirst(s)}

SearchProperties(criteria) ==
    \E s \in SearchResults(criteria) :
        /\ ret' = Call("search_properties", "", 0, "", NoDetails, criteria, "",
                       "returned", s)
        /\ UNCHANGED <<properties, user_portfolios, search_index, clock>>
        /\ Remember

(* ---------------- PropertySearch.shortlist_property ---------------- *)
AlreadyInPortfolio_Never(user, pid) == FALSE

\* property_id in self.manager.user_portfolios[user_id]
AlreadyInPortfolio(user, pid) == pid \in Range(DictGet(user_portfolios, user))

IsSold_Never(pid) == FALSE

\* property_obj.status == 'sold'
IsSold(pid) == StatusOf(pid) = "sold"

ShortlistProperty_NoLookup(user, pid) ==
    /\ IF IsSold(pid)
       THEN /\ ret' = Call("shortlist_property", user, pid, "", NoDetails, NoCriteria,
                           StatusOf(pid), "False", <<>>)
            /\ UNCHANGED <<properties, user_portfolios, search_index, clock>>
       ELSE IF AlreadyInPortfolio(user, pid)
       THEN /\ ret' = Call("shortlist_property", user, pid, "", NoDetails, NoCriteria,
                           StatusOf(pid), "False", <<>>)
            /\ UNCHANGED <<properties, user_portfolios, search_index, clock>>
       ELSE /\ user_portfolios' = DictAppend(user_portfolios, user, pid)
            /\ ret' = Call("shortlist_property", user, pid, "", NoDetails, NoCriteria,
                           StatusOf(pid), "True", <<>>)
            /\ UNCHANGED <<properties, search_index, clock>>
    /\ Remember

ShortlistProperty(user, pid) ==
    /\ IF pid \notin DOMAIN properties
       THEN /\ ret' = Call("shortlist_property", user, pid, "", NoDetails, NoCriteria,
                           StatusOf(pid), "False", <<>>)
            /\ UNCHANGED <<properties, user_portfolios, search_index, clock>>
       ELSE IF IsSold(pid)
       THEN /\ ret' = Call("shortlist_property", user, pid, "", NoDetails, NoCriteria,
                           StatusOf(pid), "False", <<>>)
            /\ UNCHANGED <<properties, user_portfolios, search_index, clock>>
       ELSE IF AlreadyInPortfolio(user, pid)
       THEN /\ ret' = Call("shortlist_property", user, pid, "", NoDetails, NoCriteria,
                           StatusOf(pid), "False", <<>>)
            /\ UNCHANGED <<properties, user_portfolios, search_index, clock>>
       ELSE /\ user_portfolios' = DictAppend(user_portfolios, user, pid)
            /\ ret' = Call("shortlist_property", user, pid, "", NoDetails, NoCriteria,
                           StatusOf(pid), "True", <<>>)
            /\ UNCHANGED <<properties, search_index, clock>>
    /\ Remember

(* ---------------- PropertySearch.get_shortlisted ---------------- *)
ShortlistedAvailable_NoStatusCheck(user) == DictGet(user_portfolios, user)

\* the ids of the user's portfolio, in its order, whose listing is available
ShortlistedAvailable(user) ==
    SelectSeq(DictGet(user_portfolios, user),
              LAMBDA pid : properties[pid].status = "available")

\* sorted(list, key=timestamp, reverse=True): newest first, and listings with
\* equal timestamps stay in the order the list had them
RECURSIVE SortedNewestFirst(_)
SortedNewestFirst(s) ==
    IF s = <<>> THEN <<>>
    ELSE LET rest == SortedNewestFirst(SubSeq(s, 1, Len(s) - 1))
             x == s[Len(s)]
             k == Cardinality({i \in 1..Len(rest) :
                     properties[rest[i]].timestamp >= properties[x].timestamp})
         IN  SubSeq(rest, 1, k) \o <<x>> \o SubSeq(rest, k + 1, Len(rest))

GetShortlisted(user) ==
    /\ ret' = Call("get_shortlisted", user, 0, "", NoDetails, NoCriteria, "",
                   "returned", SortedNewestFirst(ShortlistedAvailable(user)))
    /\ UNCHANGED <<properties, user_portfolios, search_index, clock>>
    /\ Remember

Next ==
    \/ \E u \in Users, d \in DetailsInputs : AddProperty(u, d)
    \/ \E p \in PropertyIds, s \in Statuses, u \in Users : UpdatePropertyStatus(p, s, u)
    \/ \E c \in CriteriaInputs : SearchProperties(c)
    \/ \E u \in Users, p \in PropertyIds : ShortlistProperty(u, p)
    \/ \E u \in Users : GetShortlisted(u)

Spec == Init /\ [][Next]_vars

(* ---------------- two 'sold' status calls, step by step ---------------- *)
\* update_property_status(pid, 'sold', user) is started twice by the owner of
\* an available listing; each call then runs its three steps (the checks of
\* lines 42-46, the status write of line 48, the list.remove of line 51) in
\* any interleaving with the other
StartRace(pid, user) ==
    /\ race = NoRace
    /\ pid \in DOMAIN properties
    /\ properties[pid].status = "available"
    /\ IsOwner(pid, user)
    /\ race' = [pid |-> pid, user |-> user, pc |-> [t \in Threads |-> "lookup"],
                result |-> [t \in Threads |-> ""]]
    /\ UNCHANGED <<properties, user_portfolios, search_index, clock, ret, snap>>

RaceLookup(t) ==
    /\ race.pc[t] = "lookup"
    /\ race' = IF race.pid \notin DOMAIN properties \/ ~IsOwner(race.pid, race.user)
               THEN [race EXCEPT !.pc[t] = "done", !.result[t] = "False"]
               ELSE [race EXCEPT !.pc[t] = "write"]
    /\ UNCHANGED <<properties, user_portfolios, search_index, clock, ret, snap>>

RaceWrite(t) ==
    /\ race.pc[t] = "write"
    /\ properties' = [properties EXCEPT ![race.pid].status = "sold"]
    /\ race' = [race EXCEPT !.pc[t] = "index"]
    /\ UNCHANGED <<user_portfolios, search_index, clock, ret, snap>>

RaceIndex(t) ==
    /\ race.pc[t] = "index"
    /\ LET eff == StatusIndexEffect(search_index, race.pid, "sold") IN
         /\ search_index' = eff.index
         /\ race' = [race EXCEPT !.pc[t] = "done", !.result[t] = eff.outcome]
    /\ UNCHANGED <<properties, user_portfolios, clock, ret, snap>>

NextRace ==
    \/ \E u \in Users, d \in DetailsInputs : AddProperty(u, d)
    \/ \E p \in PropertyIds, s \in Statuses, u \in Users : UpdatePropertyStatus(p, s, u)
    \/ \E p \in PropertyIds, u \in Users : StartRace(p, u)
    \/ \E t \in Threads : RaceLookup(t)
    \/ \E t \in Threads : RaceWrite(t)
    \/ \E t \in Threads : RaceIndex(t)

SpecRace == Init /\ [][NextRace]_vars

(* ---------------- the same calls, facet value against marker ---------------- *)
\* attribute payloads with a location that is the string the index uses as
\* its availability marker
KeyClashInputs ==
    { [location |-> "Austin", price |-> Finite(250000), property_type |-> "condo"],
      [location |-> "available", price |-> Finite(250000), property_type |-> "condo"] }

NextKeyClash ==
    \/ \E u \in Users, d \in KeyClashInputs : AddProperty(u, d)
    \/ \E p \in PropertyIds, s \in Statuses, u \in Users : UpdatePropertyStatus(p, s, u)
    \/ \E c \in CriteriaInputs : SearchProperties(c)
    \/ \E u \in Users, p \in PropertyIds : ShortlistProperty(u, p)
    \/ \E u \in Users : GetShortlisted(u)

SpecKeyClash == Init /\ [][NextKeyClash]_vars

(***************************************************************************)
(* Properties                                                              *)
(***************************************************************************)
AvailableList == DictGet(search_index, "available")

IsStatusCall(r) == r.op = "update_property_status"

\* a status call by the listing's owner on a listing that exists (r.pid is
\* read against the store as it is in the state the predicate is taken in)
ByOwner(r) == r.pid \in DOMAIN properties /\ properties[r.pid].user_id = r.user

\* C1: a listing id is in search_index['available'] if and only if the
\* listing's status is 'available'
C1_AvailableIndexIffStatus ==
    \A pid \in DOMAIN properties :
        (pid \in Range(AvailableList)) <=> (properties[pid].status = "available")

\* C2: no listing id occurs more than once within one index collection
C2_NoDuplicateInIndexCollection ==
    \A k \in DOMAIN search_index : \A pid \in DOMAIN properties :
        Count(search_index[k], pid) <= 1

\* C3: after update_property_status(id, 'sold', owner) returned True on an
\* available listing, the same call made again at once ends as an ordinary
\* error (it returns False, it does not raise), and leaves the index and the
\* listing's status as they were
C3_RepeatedSoldIsOrdinaryError ==
    [][ ( /\ IsStatusCall(ret) /\ ret.status = "sold" /\ ret.outcome = "True"
          /\ ret.old_status = "available" /\ ByOwner(ret)
          /\ IsStatusCall(ret') /\ ret'.status = "sold"
          /\ ret'.pid = ret.pid /\ ret'.user = ret.user )
        => ( /\ ret'.outcome = "False"
             /\ search_index' = search_index
             /\ properties' = properties ) ]_vars

\* C4: update_property_status(id, 'sold', owner) returns True only when the
\* listing's status was 'available' when it was called
C4_SoldSucceedsOnlyFromAvailable ==
    (IsStatusCall(ret) /\ ret.status = "sold" /\ ret.outcome = "True")
        => ret.old_status = "available"

\* C5: update_property_status by a user who is not the owner of an existing
\* listing returns False and leaves the listing's status, the whole index and
\* every portfolio unchanged
C5_NonOwnerStatusCallRefused ==
    [][ ( /\ IsStatusCall(ret')
          /\ ret'.pid \in DOMAIN properties
          /\ properties[ret'.pid].user_id # ret'.user )
        => ( /\ ret'.outcome = "False"
             /\ properties' = properties
             /\ search_index' = search_index
             /\ user_portfolios' = user_portfolios ) ]_vars

C5_Witness ==
    /\ IsStatusCall(ret)
    /\ ret.pid \in DOMAIN properties
    /\ properties[ret.pid].user_id # ret.user
    /\ ret.status # properties[ret.pid].status
    /\ ret.outcome = "False"

\* the label "<n>00k" with n = floor(price / 100000)
BucketLabel(price) ==
    LET n == CHOOSE m \in 0..10 :
                 m * 100000 <= price.value /\ price.value < (m + 1) * 100000
    IN  ToString(n) \o "00k"

\* valid attributes: the price is a number and is not negative
ValidDetails(d) == d.price.finite /\ d.price.value >= 0

\* C6: for valid attributes (the price a number >= 0), add_property returns
\* an id that was not a key of the store; after it the listing is
\* 'available', owned by the given user, in the owner's portfolio, and in the
\* index collections of its location, its property type, its price bucket
\* floor(price/100000) "<n>00k" and 'available'
C6_CreateStoresAndIndexes ==
    [][ (ret'.op = "add_property" /\ ValidDetails(ret'.details))
        => LET pid == ret'.pid
               d == ret'.details
           IN  /\ ret'.outcome = "returned"
               /\ ret'.value = <<pid>>
               /\ pid \notin DOMAIN properties
               /\ pid \in DOMAIN properties'
               /\ properties'[pid].status = "available"
               /\ properties'[pid].user_id = ret'.user
               /\ pid \in Range(DictGet(user_portfolios', ret'.user))
               /\ pid \in Range(DictGet(search_index', d.location))
               /\ pid \in Range(DictGet(search_index', d.property_type))
               /\ pid \in Range(DictGet(search_index', BucketLabel(d.price)))
               /\ pid \in Range(DictGet(search_index', "available")) ]_vars

C6_Witness ==
    /\ ret.op = "add_property"
    /\ Cardinality(DOMAIN properties) = 2
    /\ ret.details.price = Finite(99999)
    /\ ret.pid \in Range(DictGet(search_index, "000k"))

\* the facet of a listing that a criterion name stands for
FacetValue(pid, name) ==
    IF name = "location" THEN properties[pid].details.location
    ELSE IF name = "property_type" THEN properties[pid].details.property_type
    ELSE ""

MatchesSomeCriterion(pid, criteria) ==
    \E k \in DOMAIN criteria : FacetValue(pid, k) = criteria[k]

\* C7: with at least one criterion, search_properties returns exactly the
\* available listings that match at least one criterion on the facet it names
C7_SearchMatchesNamedFacets ==
    (ret.op = "search_properties" /\ DOMAIN ret.criteria # {})
        => Range(ret.value) =
             {pid \in DOMAIN properties :
                 /\ properties[pid].status = "available"
                 /\ MatchesSomeCriterion(pid, ret.criteria)}

\* C8: every listing search_properties returns has status 'available'
C8_SearchReturnsOnlyAvailable ==
    ret.op = "search_properties"
        => \A i \in 1..Len(ret.value) : properties[ret.value[i]].status = "available"

C8_Witness ==
    /\ ret.op = "search_properties"
    /\ Len(ret.value) >= 1
    /\ \E pid \in SearchCandidates(ret.criteria) : properties[pid].status = "sold"

\* C9: the result of search_properties is ordered by timestamp, newest
\* first, and listings with equal timestamps are ordered by identifier
C9_SearchOrderedByTimeThenId ==
    ret.op = "search_properties"
        => \A i, j \in 1..Len(ret.value) :
              i < j =>
                \/ properties[ret.value[i]].timestamp > properties[ret.value[j]].timestamp
                \/ /\ properties[ret.value[i]].timestamp = properties[ret.value[j]].timestamp
                   /\ ret.value[i] < ret.value[j]

PortfolioLen(ports, user) == Len(DictGet(ports, user))

\* C10: shortlist_property called twice in a row for the same user and the
\* same existing available listing returns False the second time, a call
\* never makes the user's portfolio longer by more than one and the second
\* one not at all; no id occurs twice in a user's portfolio
C10_ShortlistTwiceConflicts ==
    /\ [](\A u \in DOMAIN user_portfolios : \A pid \in PropertyIds :
             Count(user_portfolios[u], pid) <= 1)
    /\ [][ ret'.op = "shortlist_property"
           => /\ PortfolioLen(user_portfolios', ret'.user)
                    <= PortfolioLen(user_portfolios, ret'.user) + 1
              /\ ( /\ ret.op = "shortlist_property"
                   /\ ret'.user = ret.user /\ ret'.pid = ret.pid
                   /\ StatusOf(ret.pid) = "available" )
                 => ( /\ ret'.outcome = "False"
                      /\ user_portfolios' = user_portfolios ) ]_vars

C10_Witness ==
    /\ ret.op = "shortlist_property"
    /\ ret.outcome = "False"
    /\ StatusOf(ret.pid) = "available"
    /\ properties[ret.pid].user_id # ret.user
    /\ Count(DictGet(user_portfolios, ret.user), ret.pid) = 1

Untouched ==
    /\ properties' = properties
    /\ user_portfolios' = user_portfolios
    /\ search_index' = search_index

\* C11: shortlist_property on a listing whose status is 'sold' returns False
\* and leaves every portfolio, the store and the index unchanged
C11_ShortlistSoldRefused ==
    [][ (ret'.op = "shortlist_property" /\ StatusOf(ret'.pid) = "sold")
        => (ret'.outcome = "False" /\ Untouched) ]_vars

C11_Witness ==
    /\ ret.op = "shortlist_property"
    /\ StatusOf(ret.pid) = "sold"
    /\ ret.outcome = "False"
    /\ ret.pid \notin Range(DictGet(user_portfolios, ret.user))

\* C12: for an id that is no key of the store, update_property_status and
\* shortlist_property return False for every user and status and leave the
\* store, every portfolio and the index unchanged
C12_UnknownIdRefused ==
    [][ ( /\ ret'.op \in {"update_property_status", "shortlist_property"}
          /\ ret'.pid \notin DOMAIN properties )
        => (ret'.outcome = "False" /\ Untouched) ]_vars

C12_Witness ==
    /\ ret.op = "update_property_status"
    /\ ret.pid \notin DOMAIN properties
    /\ ret.outcome = "False"
    /\ \E p \in DOMAIN properties : properties[p].user_id = ret.user

\* C13: every listing's status is 'available' or 'sold', and every listing's
\* owner is the user given to the add_property call that made it: no call
\* changes the owner of a listing
C13_StatusAndOwnerKept ==
    /\ [](\A pid \in DOMAIN properties :
             properties[pid].status \in {"available", "sold"})
    /\ [][ /\ \A pid \in DOMAIN properties :
                 /\ pid \in DOMAIN properties'
                 /\ properties'[pid].user_id = properties[pid].user_id
           /\ ret'.op = "add_property"
                 => properties'[ret'.pid].user_id = ret'.user ]_vars

\* C14: get_shortlisted(user) returns exactly the listings of the user's
\* portfolio whose status is 'available' (the user's own unsold listings
\* among them), each once
C14_ShortlistedAreAvailableOnes ==
    ret.op = "get_shortlisted"
        => LET expected == {pid \in Range(DictGet(user_portfolios, ret.user)) :
                               properties[pid].status = "available"}
           IN  /\ Range(ret.value) = expected
               /\ Len(ret.value) = Cardinality(expected)

C14_Witness ==
    /\ ret.op = "get_shortlisted"
    /\ \E i \in 1..Len(ret.value) : properties[ret.value[i]].user_id = ret.user
    /\ \E pid \in Range(DictGet(user_portfolios, ret.user)) :
          /\ properties[pid].user_id # ret.user
          /\ properties[pid].status = "sold"

\* C15: search_properties with no criterion returns the empty list
C15_EmptyCriteriaFindNothing ==
    (ret.op = "search_properties" /\ DOMAIN ret.criteria = {}) => ret.value = <<>>

C15_Witness ==
    /\ ret.op = "search_properties"
    /\ DOMAIN ret.criteria = {}
    /\ ret.value = <<>>
    /\ \A p \in PropertyIds : StatusOf(p) = "available"

\* the index keys that are the location, the property type or the price
\* bucket of a listing
FacetKeys ==
    UNION { {properties[p].details.location, properties[p].details.property_type}
            \cup (IF PriceRangeRaises(properties[p].details.price) THEN {}
                  ELSE {PriceRange(properties[p].details.price)})
            : p \in DOMAIN properties }

\* C16: update_property_status and shortlist_property leave the collections
\* under price-bucket, location and property-type keys as they are, and no
\* call takes an id out of one of them
C16_FacetCollectionsOnlyGrow ==
    [][ /\ ret'.op \in {"update_property_status", "shortlist_property"}
            => \A k \in FacetKeys : DictGet(search_index', k) = DictGet(search_index, k)
        /\ \A k \in FacetKeys :
              Range(DictGet(search_index, k)) \subseteq Range(DictGet(search_index', k)) ]_vars

\* C17: whenever a listing is 'available', update_property_status(id, 'sold',
\* owner) returns True and makes it 'sold'; whenever it is 'sold',
\* update_property_status(id, 'available', owner) returns True and makes it
\* 'available'
C17_BothStatusesLeavable ==
    /\ [](\A pid \in DOMAIN properties :
             /\ properties[pid].status = "available"
                   => StatusIndexEffect(search_index, pid, "sold").outcome = "True"
             /\ properties[pid].status = "sold"
                   => StatusIndexEffect(search_index, pid, "available").outcome = "True")
    /\ [][ ( /\ IsStatusCall(ret')
             /\ ret'.pid \in DOMAIN properties
             /\ properties[ret'.pid].user_id = ret'.user
             /\ \/ ret'.status = "sold" /\ properties[ret'.pid].status = "available"
                \/ ret'.status = "available" /\ properties[ret'.pid].status = "sold" )
           => ( /\ ret'.outcome = "True"
                /\ properties'[ret'.pid].status = ret'.status ) ]_vars

\* C20: shortlist_property by the user who created the listing returns False
\* and leaves that user's portfolio as it is
C20_OwnerCannotShortlistOwn ==
    [][ ( /\ ret'.op = "shortlist_property"
          /\ ret'.pid \in DOMAIN properties
          /\ properties[ret'.pid].user_id = ret'.user )
        => ( /\ ret'.outcome = "False"
             /\ user_portfolios' = user_portfolios ) ]_vars

C20_Witness ==
    /\ ret.op = "shortlist_property"
    /\ StatusOf(ret.pid) = "available"
    /\ properties[ret.pid].user_id = ret.user
    /\ ret.outcome = "False"

\* C18: when two update_property_status(id, 'sold', owner) calls on an
\* available listing have both run to their end, interleaved step by step,
\* at most one of them returned True and the id is not in
\* search_index['available']
C18_RacingSoldCallsOneWinner ==
    (\A t \in Threads : race.pc[t] = "done")
        => /\ Cardinality({t \in Threads : race.result[t] = "True"}) <= 1
           /\ race.pid \notin Range(AvailableList)

\* C19: from a state where a listing is available and is once in
\* search_index['available'], update_property_status(id, 'sold', owner)
\* followed by update_property_status(id, 'available', owner) gives back the
\* listing's status, the set of ids of every index collection, every
\* portfolio and the set of listings every search finds
C19_SoldThenAvailableRestores ==
    [][ ( /\ snap.taken
          /\ snap.properties[ret.pid].status = "available"
          /\ Count(DictGet(snap.index, "available"), ret.pid) = 1
          /\ IsStatusCall(ret') /\ ret'.status = "available"
          /\ ret'.pid = ret.pid /\ ret'.user = ret.user )
        => ( /\ properties'[ret.pid].status = snap.properties[ret.pid].status
             /\ DOMAIN search_index' = DOMAIN snap.index
             /\ \A k \in DOMAIN snap.index :
                   Range(search_index'[k]) = Range(snap.index[k])
             /\ user_portfolios' = snap.portfolios
             /\ \A c \in CriteriaInputs : SearchFiltered(c)' = snap.found[c] ) ]_vars

C19_Witness ==
    /\ IsStatusCall(ret)
    /\ ret.status = "available" /\ ret.old_status = "sold" /\ ret.outcome = "True"
    /\ Count(AvailableList, ret.pid) = 1
    /\ \E c \in CriteriaInputs : ret.pid \in SearchFiltered(c)
    /\ \E u \in DOMAIN user_portfolios :
          ret.pid \in Range(user_portfolios[u]) /\ properties[ret.pid].user_id # u

====
